---- MODULE Spec2Model ----
(***************************************************************************)
(* Model of run() in "src/Image Classification/classify.py": the capture / *)
(* classify / overlay / FPS / key-poll loop, its three ways of ending      *)
(* (break on ESC, sys.exit on a failed read, an uncaught exception) and    *)
(* the cleanup that follows the loop.                                      *)
(*                                                                         *)
(* The camera, the classifier, the keyboard and the wall clock are the     *)
(* environment: what they return is drawn with \E from small sets.         *)
(* Times are integer clock ticks, TicksPerSecond ticks to the second.      *)
(* fps is the exact quotient num/den, kept as the pair <<num, den>>.       *)
(* Scores are thousandths, displayed percentages are whole percents,       *)
(* ms-per-frame is in hundredths of a millisecond.                         *)
(***************************************************************************)
EXTENDS Integers, Sequences, FiniteSets, TLC

VARIABLES
  pc,            \* position of run(): check, read, classify, overlay, fps,
                 \* poll, show, cleanup, done, exited, crashed
  cap,           \* cv2.VideoCapture: [opened, released]
  windows_open,  \* FALSE once cv2.destroyAllWindows() has run
  now,           \* the wall clock, time.time()
  counter,       \* counter
  fps,           \* fps, as <<num, den>>
  start_time,    \* start_time
  success,       \* success of the last cap.read() (TRUE before any read)
  categories,    \* categories.classifications[0].categories
  idx,           \* number of categories the for loop has consumed
  category_name, \* category_name, Unbound until first assigned
  image,         \* image: [frame, results, fps_text], what putText drew
  classified,    \* frame number of the last classifier.classify call
  displayed,     \* frame number of the last cv2.imshow call
  key,           \* result of the last cv2.waitKey(1), NoKey before any
  exit_status,   \* process exit status, NotExited while running
  stderr,        \* what the process wrote to standard error on exit
  recomputes     \* history: frame numbers at which fps was recomputed

vars == <<pc, cap, windows_open, now, counter, fps, start_time, success,
          categories, idx, category_name, image, classified, displayed,
          key, exit_status, stderr, recomputes>>

----------------------------------------------------------------------------
(* Program constants *)

_FPS_AVERAGE_FRAME_COUNT == 10

ESC == 27

NoKey == -1

NotExited == -1

Unbound == "<unbound>"

ReadErrorMessage ==
  "ERROR: Unable to read from webcam. Please verify your webcam settings."

UnboundLocalError == "UnboundLocalError: category_name"

----------------------------------------------------------------------------
(* Bounds of the model *)

MaxFrames == 30        \* frames the camera delivers before it must fail

MaxResults == 2        \* --maxResults: most categories per frame

TicksPerSecond == 3000 \* resolution of the modelled clock

MaxDrift == 2          \* the clock runs at most this far ahead of one
                       \* tick per delivered frame

\* Category indices the classifier may return: the three the label chain
\* knows and one it does not.
Indices == {0, 1, 2, 3}

Scores == {600, 757}   \* raw scores the classifier may return, in thousandths

ReadTicks == {1, 2}    \* ticks a cap.read() may take

ClockGaps == {0, 1}    \* ticks between two successive time.time() calls

Keys == {NoKey, 113}   \* what cv2.waitKey(1) may return besides ESC

Categories == [index : Indices, score : Scores]

CategoryLists == UNION {[1 .. n -> Categories] : n \in 0 .. MaxResults}

----------------------------------------------------------------------------
(* Pure helpers *)

\* Python's round(): the nearest multiple, ties to the even one.
\* RoundHalfEven(n, d) is round(n / d) for n >= 0, d > 0.
RoundHalfEven(n, d) ==
  LET q == n \div d
      r == n % d
  IN  IF 2 * r < d THEN q
      ELSE IF 2 * r > d THEN q + 1
      ELSE IF q % 2 = 0 THEN q ELSE q + 1

\* Mutant: the chain ends in an else branch that assigns a fallback label.
LabelOf_fallback(index, prev) ==
  IF index = 0 THEN "hp"
  ELSE IF index = 1 THEN "mouse"
  ELSE IF index = 2 THEN "diki"
  ELSE "unknown"

\* Mutant: the third branch of the chain is missing.
LabelOf_short(index, prev) ==
  IF index = 0 THEN "hp"
  ELSE IF index = 1 THEN "mouse"
  ELSE prev

\* The if / elif chain: the name category_name holds after it, given what
\* it held before.
LabelOf(index, prev) ==
  IF index = 0 THEN "hp"
  ELSE IF index = 1 THEN "mouse"
  ELSE IF index = 2 THEN "diki"
  ELSE prev

\* score = round(category.score, 2); score_persentase = score * 100
ScorePercent(score) == RoundHalfEven(score, 10)

\* result_text, as the pair of its two variable parts
ResultText(name, score) == [label |-> name, percent |-> ScorePercent(score)]

\* fps_ms = round(1 / fps * 1000, 2) if fps > 0 else 0, in hundredths of ms
FpsMs(f) ==
  IF f[1] > 0 THEN RoundHalfEven(1000 * 100 * f[2], f[1]) ELSE 0

\* fps_text = str(int(fps)) + ' fps / ' + str(fps_ms) + ' ms'
FpsText(f) == <<f[1] \div f[2], FpsMs(f)>>

\* fps = _FPS_AVERAGE_FRAME_COUNT / (end_time - start_time), times in ticks
FpsOver(end_time, start) ==
  <<_FPS_AVERAGE_FRAME_COUNT * TicksPerSecond, end_time - start>>

NoImage == [frame |-> 0, results |-> <<>>, fps_text |-> <<>>]

----------------------------------------------------------------------------
(* State after core/vision setup and cv2.VideoCapture(camera_id): the      *)
(* capture object exists and either opened the device or did not.          *)

Init ==
  /\ pc = "check"
  /\ cap \in {[opened |-> o, released |-> FALSE] : o \in BOOLEAN}
  /\ windows_open = TRUE
  /\ now = 0
  /\ counter = 0
  /\ fps = <<0, 1>>
  /\ start_time = 0
  /\ success = TRUE
  /\ categories = <<>>
  /\ idx = 0
  /\ category_name = Unbound
  /\ image = NoImage
  /\ classified = 0
  /\ displayed = 0
  /\ key = NoKey
  /\ exit_status = NotExited
  /\ stderr = ""
  /\ recomputes = <<>>

isOpened == cap.opened /\ ~cap.released

\* while cap.isOpened():
LoopCheck ==
  /\ pc = "check"
  /\ pc' = IF isOpened THEN "read" ELSE "cleanup"
  /\ UNCHANGED <<cap, windows_open, now, counter, fps, start_time, success,
                 categories, idx, category_name, image, classified,
                 displayed, key, exit_status, stderr, recomputes>>

\* success, image = cap.read() succeeds; counter += 1; flip
ReadOk ==
  /\ pc = "read"
  /\ counter < MaxFrames
  /\ \E dt \in ReadTicks :
        /\ now + dt <= counter + 1 + MaxDrift
        /\ now' = now + dt
  /\ success' = TRUE
  /\ counter' = counter + 1
  /\ image' = [frame |-> counter + 1, results |-> <<>>, fps_text |-> <<>>]
  /\ pc' = "classify"
  /\ UNCHANGED <<cap, windows_open, fps, start_time, categories, idx,
                 category_name, classified, displayed, key, exit_status,
                 stderr, recomputes>>

\* Mutant: counter += 1 is placed before the success test.
ReadFail_counted ==
  /\ pc = "read"
  /\ \E dt \in ReadTicks :
        /\ now + dt <= counter + 1 + MaxDrift
        /\ now' = now + dt
  /\ success' = FALSE
  /\ counter' = counter + 1
  /\ pc' = "exited"
  /\ exit_status' = 1
  /\ stderr' = ReadErrorMessage
  /\ UNCHANGED <<cap, windows_open, fps, start_time, categories, idx,
                 category_name, image, classified, displayed, key,
                 recomputes>>

\* Mutant: a bare sys.exit() in place of sys.exit(message).
ReadFail_silent ==
  /\ pc = "read"
  /\ \E dt \in ReadTicks :
        /\ now + dt <= counter + 1 + MaxDrift
        /\ now' = now + dt
  /\ success' = FALSE
  /\ pc' = "exited"
  /\ exit_status' = 0
  /\ UNCHANGED <<cap, windows_open, counter, fps, start_time, categories,
                 idx, category_name, image, classified, displayed, key,
                 stderr, recomputes>>

\* success is False: sys.exit('ERROR: ...') raises SystemExit out of run()
ReadFail ==
  /\ pc = "read"
  /\ \E dt \in ReadTicks :
        /\ now + dt <= counter + 1 + MaxDrift
        /\ now' = now + dt
  /\ success' = FALSE
  /\ pc' = "exited"
  /\ exit_status' = 1
  /\ stderr' = ReadErrorMessage
  /\ UNCHANGED <<cap, windows_open, counter, fps, start_time, categories,
                 idx, category_name, image, classified, displayed, key,
                 recomputes>>

\* categories = classifier.classify(tensor_image)
Classify ==
  /\ pc = "classify"
  /\ \E cats \in CategoryLists : categories' = cats
  /\ idx' = 0
  /\ classified' = counter
  /\ pc' = "overlay"
  /\ UNCHANGED <<cap, windows_open, now, counter, fps, start_time, success,
                 category_name, image, displayed, key, exit_status, stderr,
                 recomputes>>

\* one pass of the for loop body whose str(category_name) succeeds
OverlayDraw ==
  /\ pc = "overlay"
  /\ idx < Len(categories)
  /\ LET category == categories[idx + 1]
         name == LabelOf(category.index, category_name)
     IN  /\ name # Unbound
         /\ category_name' = name
         /\ image' = [image EXCEPT
                        !.results = Append(@, ResultText(name, category.score))]
  /\ idx' = idx + 1
  /\ UNCHANGED <<pc, cap, windows_open, now, counter, fps, start_time,
                 success, categories, classified, displayed, key,
                 exit_status, stderr, recomputes>>

\* one pass of the for loop body in which category_name was never
\* assigned: str(category_name) raises UnboundLocalError, uncaught
OverlayCrash ==
  /\ pc = "overlay"
  /\ idx < Len(categories)
  /\ LabelOf(categories[idx + 1].index, category_name) = Unbound
  /\ pc' = "crashed"
  /\ exit_status' = 1
  /\ stderr' = UnboundLocalError
  /\ UNCHANGED <<cap, windows_open, now, counter, fps, start_time, success,
                 categories, idx, category_name, image, classified,
                 displayed, key, recomputes>>

\* the for loop is exhausted; categories and idx are not read again
\* before line 100 reassigns them, so the model drops them here
OverlayEnd ==
  /\ pc = "overlay"
  /\ idx = Len(categories)
  /\ categories' = <<>>
  /\ idx' = 0
  /\ pc' = "fps"
  /\ UNCHANGED <<cap, windows_open, now, counter, fps, start_time, success,
                 category_name, image, classified, displayed, key,
                 exit_status, stderr, recomputes>>

\* Mutant: start_time is not reassigned after the recomputation.
FpsRecompute_cumulative ==
  /\ pc = "fps"
  /\ counter % _FPS_AVERAGE_FRAME_COUNT = 0
  /\ fps' = FpsOver(now, start_time)
  /\ \E gap \in ClockGaps :
        /\ now + gap <= counter + MaxDrift
        /\ now' = now + gap
  /\ recomputes' = Append(recomputes, counter)
  /\ image' = [image EXCEPT !.fps_text = FpsText(fps')]
  /\ pc' = "poll"
  /\ UNCHANGED <<cap, windows_open, counter, start_time, success,
                 categories, idx, category_name, classified, displayed, key,
                 exit_status, stderr>>

\* if counter % _FPS_AVERAGE_FRAME_COUNT == 0: recompute fps, restart the
\* window (two separate readings of the clock); then draw fps_text
FpsRecompute ==
  /\ pc = "fps"
  /\ counter % _FPS_AVERAGE_FRAME_COUNT = 0
  /\ fps' = FpsOver(now, start_time)
  /\ \E gap \in ClockGaps :
        /\ now + gap <= counter + MaxDrift
        /\ now' = now + gap
  /\ start_time' = now'
  /\ recomputes' = Append(recomputes, counter)
  /\ image' = [image EXCEPT !.fps_text = FpsText(fps')]
  /\ pc' = "poll"
  /\ UNCHANGED <<cap, windows_open, counter, success, categories, idx,
                 category_name, classified, displayed, key, exit_status,
                 stderr>>

\* Mutant: the modulo test is missing, fps is recomputed on every frame.
FpsKeep_recompute ==
  /\ pc = "fps"
  /\ counter % _FPS_AVERAGE_FRAME_COUNT # 0
  /\ now > start_time
  /\ fps' = FpsOver(now, start_time)
  /\ start_time' = now
  /\ image' = [image EXCEPT !.fps_text = FpsText(fps')]
  /\ pc' = "poll"
  /\ UNCHANGED <<cap, windows_open, now, counter, success, categories, idx,
                 category_name, classified, displayed, key, exit_status,
                 stderr, recomputes>>

\* counter is not a multiple of the window: only draw fps_text
FpsKeep ==
  /\ pc = "fps"
  /\ counter % _FPS_AVERAGE_FRAME_COUNT # 0
  /\ image' = [image EXCEPT !.fps_text = FpsText(fps)]
  /\ pc' = "poll"
  /\ UNCHANGED <<cap, windows_open, now, counter, fps, start_time, success,
                 categories, idx, category_name, classified, displayed, key,
                 exit_status, stderr, recomputes>>

\* Mutant: the key is compared with another code, ESC does not break.
PollEsc_ignored ==
  /\ pc = "poll"
  /\ key' = ESC
  /\ pc' = "show"
  /\ UNCHANGED <<cap, windows_open, now, counter, fps, start_time, success,
                 categories, idx, category_name, image, classified,
                 displayed, exit_status, stderr, recomputes>>

\* Mutant: cv2.imshow is called before the key is polled.
PollEsc_shown ==
  /\ pc = "poll"
  /\ key' = ESC
  /\ displayed' = image.frame
  /\ pc' = "cleanup"
  /\ UNCHANGED <<cap, windows_open, now, counter, fps, start_time, success,
                 categories, idx, category_name, image, classified,
                 exit_status, stderr, recomputes>>

\* cv2.waitKey(1) == 27: break
PollEsc ==
  /\ pc = "poll"
  /\ key' = ESC
  /\ pc' = "cleanup"
  /\ UNCHANGED <<cap, windows_open, now, counter, fps, start_time, success,
                 categories, idx, category_name, image, classified,
                 displayed, exit_status, stderr, recomputes>>

\* cv2.waitKey(1) returns anything else
PollOther ==
  /\ pc = "poll"
  /\ \E k \in Keys : key' = k
  /\ pc' = "show"
  /\ UNCHANGED <<cap, windows_open, now, counter, fps, start_time, success,
                 categories, idx, category_name, image, classified,
                 displayed, exit_status, stderr, recomputes>>

\* cv2.imshow('image_classification', image); the iteration is over: image
\* is not read again before line 80 reassigns it, and the polled key was a
\* temporary of line 148, so the model drops both here
Show ==
  /\ pc = "show"
  /\ displayed' = image.frame
  /\ image' = NoImage
  /\ key' = NoKey
  /\ pc' = "check"
  /\ UNCHANGED <<cap, windows_open, now, counter, fps, start_time, success,
                 categories, idx, category_name, classified, exit_status,
                 stderr, recomputes>>

\* cap.release(); cv2.destroyAllWindows(); run() and main() return
Cleanup ==
  /\ pc = "cleanup"
  /\ cap' = [cap EXCEPT !.released = TRUE]
  /\ windows_open' = FALSE
  /\ exit_status' = 0
  /\ pc' = "done"
  /\ UNCHANGED <<now, counter, fps, start_time, success, categories, idx,
                 category_name, image, classified, displayed, key, stderr,
                 recomputes>>

Next ==
  \/ LoopCheck
  \/ ReadOk
  \/ ReadFail
  \/ Classify
  \/ OverlayDraw
  \/ OverlayCrash
  \/ OverlayEnd
  \/ FpsRecompute
  \/ FpsKeep
  \/ PollEsc
  \/ PollOther
  \/ Show
  \/ Cleanup

Spec == Init /\ [][Next]_vars

TypeOK ==
  /\ pc \in {"check", "read", "classify", "overlay", "fps", "poll", "show",
             "cleanup", "done", "exited", "crashed"}
  /\ counter \in 0 .. MaxFrames
  /\ idx \in 0 .. Len(categories)
  /\ fps[2] > 0
  /\ now <= counter + 1 + MaxDrift

----------------------------------------------------------------------------
(* Vocabulary of the properties *)

InTable == {0, 1, 2}

TableLabel(i) == CASE i = 0 -> "hp" [] i = 1 -> "mouse" [] i = 2 -> "diki"

Terminated == pc \in {"done", "exited", "crashed"}

\* pcs at which the current iteration has not yet passed its FPS step
BeforeFpsStep == pc \in {"classify", "overlay", "fps", "crashed"}

\* <<N, 2N, ...>>: the multiples of the window size up to n
WindowEnds(n) ==
  [i \in 1 .. (n \div _FPS_AVERAGE_FRAME_COUNT) |->
     i * _FPS_AVERAGE_FRAME_COUNT]

----------------------------------------------------------------------------
\* C1: on every exit of the loop, by the cancellation key or by a failed
\* read, the process has ended only after cap.release() and
\* cv2.destroyAllWindows() ran.
C1_ReleasedOnEveryExit ==
  pc \in {"done", "exited"} => cap.released /\ ~windows_open

\* C2: a driver that was RUNNING (its camera opened) terminates only after
\* the key poll returned ESC or a frame read failed.
C2_OnlyEscOrReadFailure ==
  (Terminated /\ cap.opened) => (key = ESC \/ ~success)

\* C3: once the key poll of an iteration has returned ESC the driver is
\* terminating: it is never again at cap.read() or classifier.classify(),
\* and no frame beyond that iteration's is acquired or classified.
C3_EscTerminatesInIteration ==
  key = ESC =>
    /\ pc \in {"cleanup", "done"}
    /\ image.frame = counter
    /\ classified = counter

C3_Witness ==
  /\ pc = "done"
  /\ key = ESC
  /\ counter = 3
  /\ classified = 3

\* C4: a step in which cap.read() reports failure ends the process at once:
\* the counter is not incremented, the classifier is not invoked, nothing
\* is drawn or displayed, and no step follows (no retry).
C4_ReadFailureStopsAtOnce ==
  [][/\ (pc = "read" /\ ~success') =>
          /\ pc' = "exited"
          /\ exit_status' # NotExited
          /\ UNCHANGED <<counter, classified, displayed, image, categories>>
     /\ pc # "exited"]_vars

C4_Witness ==
  /\ pc = "exited"
  /\ ~success
  /\ counter = 2
  /\ classified = 2
  /\ displayed = 2
  /\ image = NoImage

C6_RecomputedEveryTenth ==
  [][/\ recomputes' =
          WindowEnds(IF BeforeFpsStep' THEN counter' - 1 ELSE counter')
     /\ recomputes' # recomputes =>
          /\ fps'[1] = _FPS_AVERAGE_FRAME_COUNT * TicksPerSecond
          /\ fps'[2] = now - start_time
          /\ start_time' = now'
          /\ now' >= now]_vars

C6_Witness ==
  /\ pc = "poll"
  /\ counter = 30
  /\ recomputes = <<10, 20, 30>>
  /\ now > counter
  /\ fps[2] = _FPS_AVERAGE_FRAME_COUNT

\* C7: fps and start_time change only in the FPS step of a frame whose
\* counter is a multiple of 10; the text drawn is always that of the
\* current fps, and below frame 10 it is 0 fps / 0 ms.
C7_FpsChangesOnlyOnTenth ==
  [][/\ (fps' # fps \/ start_time' # start_time) =>
          pc = "fps" /\ counter % _FPS_AVERAGE_FRAME_COUNT = 0
     /\ pc' \in {"poll", "show"} => image'.fps_text = FpsText(fps')
     /\ (pc' \in {"poll", "show"} /\ counter' < _FPS_AVERAGE_FRAME_COUNT) =>
          /\ fps'[1] = 0
          /\ start_time' = 0
          /\ image'.fps_text = <<0, 0>>]_vars

C7_Witness ==
  /\ pc = "show"
  /\ counter = 13
  /\ recomputes = <<10>>
  /\ fps[1] > 0
  /\ image.fps_text = FpsText(fps)
  /\ image.fps_text[1] > 0

C9_ExitStatus ==
  /\ (pc = "done" /\ key = ESC) => exit_status = 0
  /\ ~success =>
       /\ pc = "exited"
       /\ exit_status \notin {0, NotExited}
       /\ stderr = ReadErrorMessage

C9_Witness ==
  /\ pc = "exited"
  /\ ~success
  /\ counter = 1
  /\ exit_status = 1

\* C10: one overlay is drawn per category consumed, and the label of an
\* overlay whose category has an index in {0,1,2} is that index's label
\* whatever came before; on frame k of 1..30 with index (k-1) div 10 the
\* label is hp, mouse, diki in turn, and by frame 30 fps was recomputed at
\* frames 10, 20 and 30.
C10_LabelByOwnIndex ==
  /\ pc = "overlay" =>
       /\ Len(image.results) = idx
       /\ \A j \in 1 .. idx :
            categories[j].index \in InTable =>
              image.results[j].label = TableLabel(categories[j].index)
  /\ pc \in {"fps", "poll", "show"} =>
       \A j \in 1 .. Len(image.results) :
         image.results[j].label \in {"hp", "mouse", "diki"}
  /\ (/\ pc = "overlay"
      /\ counter \in 1 .. 30
      /\ categories = <<[index |-> (counter - 1) \div 10, score |-> 600]>>
      /\ idx = 1) =>
       image.results =
         <<[label |-> <<"hp", "mouse", "diki">>[(counter - 1) \div 10 + 1],
            percent |-> 60]>>
  /\ (counter = 30 /\ ~BeforeFpsStep) => recomputes = <<10, 20, 30>>

C10_Witness ==
  /\ pc = "poll"
  /\ counter = 30
  /\ category_name = "diki"
  /\ image.results = <<[label |-> "diki", percent |-> 60]>>
  /\ recomputes = <<10, 20, 30>>

====
